---- MODULE Spec2Model ----
(***************************************************************************)
(* The event-driven Lambdas of the Security-Portfolio repository:          *)
(*   "soc"       AWS Automated Security Operations Center/scripts/         *)
(*               LambdaFunction1.py   (lambda_handler and its strategies)  *)
(*   "hardening" AWS Security Hardening & CIS Benchmarking/scripts/        *)
(*               LambdaRemFunction.py (lambda_handler)                     *)
(*   "reporting" AWS Automated Compliance Reporting/scripts/               *)
(*               AdvLab6_LambdaCode.py (lambda_handler)                    *)
(* One behaviour delivers one event to one handler, up to MaxRuns times    *)
(* (duplicate delivery).  Every boto3 call is one step: it may raise, and  *)
(* when it does not, its effect on the control plane is applied.           *)
(*                                                                         *)
(* Events are JSON objects.  A key that holds an object holds an object    *)
(* whenever it is present; an absent object is written as the object whose *)
(* keys are all absent, which no handler can tell apart                    *)
(* (dict.get(k, {}) and the chained `in` tests).  boto3.client(...) does   *)
(* no I/O and is taken not to raise.                                       *)
(***************************************************************************)
EXTENDS Integers, Sequences, FiniteSets, TLC

\* ----------------------------------------------------------------- bounds
MaxRules == 3       \* ingress rules of a security group
MaxRanges == 3      \* size of a security group's listing (see Weight)
MaxRuns == 2        \* deliveries of the event

\* ----------------------------------------------------------- python values
Absent == "<absent>"        \* the key is not in the mapping
None == "<None>"            \* Python None / JSON null
Empty == ""

RealIds == {"r1", "r2"}     \* resources that exist in the account

OpenCidr == "0.0.0.0/0"
PrivateCidr == "10.0.0.0/8"
Cidrs == {OpenCidr, PrivateCidr}

SecurityGroupType == "AWS::EC2::SecurityGroup"
BucketType == "AWS::S3::Bucket"
InstanceType == "AWS::EC2::Instance"
RoleType == "AWS::IAM::Role"

\* dict.get(key): None when the key is absent
Get(v) == IF v = Absent THEN None ELSE v

\* str(x) inside an f-string
Str(v) == IF v = None THEN "None" ELSE v

\* bool(x) of a string or None
Truthy(v) == v \notin {None, Empty}

Procs == 1..MaxRuns

VARIABLES
    handler,      \* which Lambda the event is delivered to
    event,        \* the inbound event
    pc,           \* pc[p]: position of delivery p in its handler
    listing,      \* listing[p]: sg['IpPermissions'] as returned by describe
    idx,          \* idx[p]: <<i, j>>, position of the two nested for loops
    qsg,          \* qsg[p]: quarantine_sg_id
    bucket,       \* bucket[p]: the bucket name the hardening handler extracted
    result,       \* result[p]: the handler's return value
    sgRules,      \* control plane: ingress rules of each security group
    encrypted,    \* control plane: buckets with default encryption
    blocked,      \* control plane: buckets with the public access block
    boundaries,   \* control plane: security groups created by quarantine
    attached,     \* control plane: groups attached to each instance
    tagged,       \* control plane: instances tagged SecurityStatus=Quarantined
    calls,        \* every control-plane call issued, in order
    published,    \* every sns.publish issued, in order
    log           \* logger.error entries, in order

vars == <<handler, event, pc, listing, idx, qsg, bucket, result, sgRules, encrypted,
          blocked, boundaries, attached, tagged, calls, published, log>>

local == <<listing, idx, qsg, bucket>>
plane == <<sgRules, encrypted, blocked, boundaries, attached, tagged>>

\* ------------------------------------------------------------------ events
\* 0..n-tuples over S
SeqUpTo(S, n) == UNION {[1..k -> S] : k \in 0..n}

Rule(port, ranges) == [port |-> port, ranges |-> ranges]

\* What a rule adds to the size of a listing: its IpRanges, and 1 for a rule
\* without any (a rule that names other groups only)
Weight(ranges) == IF ranges = <<>> THEN 1 ELSE Len(ranges)

\* The lists of n IpRanges lists of size at most `budget` together
RECURSIVE RangeLists(_, _)
RangeLists(n, budget) ==
    IF n = 0 THEN {<<>>}
    ELSE UNION {{<<r>> \o rest : rest \in RangeLists(n - 1, budget - Weight(r))} :
                   r \in {r \in SeqUpTo(Cidrs, budget) : Weight(r) <= budget}}

\* The rule lists the control plane can hold: rule k is the rule of port k
RuleLists ==
    UNION {{[k \in 1..n |-> Rule(k, rs[k])] : rs \in RangeLists(n, MaxRanges)} :
              n \in 0..MaxRules}

NoEvaluation == [complianceType |-> Absent, other |-> FALSE]

\* Events of the soc handler: it reads detail.configurationItem and
\* detail.newEvaluationResult only
SocEvents ==
    [detail : [resourceId : {Absent},
               configurationItem : [resourceType : {Absent, SecurityGroupType,
                                                    BucketType, InstanceType, RoleType},
                                    resourceId : {Absent, Empty, "r1"}],
               newEvaluationResult : [complianceType : {Absent, "COMPLIANT", "NON_COMPLIANT"},
                                      other : {FALSE}],
               evaluationResult : {NoEvaluation}],
     Records : {<<>>},
     bucket : {Absent},
     resourceId : {Absent}]

\* Events of the hardening handler: it reads detail.resourceId, Records and
\* bucket; the other identifier fields and the compliance state ride along
HardeningEvents ==
    [detail : [resourceId : {Absent, None, Empty, "r1"},
               configurationItem : [resourceType : {Absent},
                                    resourceId : {Absent, "r1"}],
               newEvaluationResult : [complianceType : {Absent, "COMPLIANT", "NON_COMPLIANT"},
                                      other : {FALSE}],
               evaluationResult : {NoEvaluation}],
     Records : {<<>>, <<Absent>>, <<Empty>>, <<"r1">>, <<"r2">>},
     bucket : {Absent, None, Empty, "r1", "r2"},
     resourceId : {Absent, "r1"}]

\* Events of the reporting handler: it reads detail.resourceId and the two
\* evaluation results; `other` says that newEvaluationResult holds keys other
\* than complianceType
ReportingEvents ==
    [detail : [resourceId : {Absent, "r1"},
               configurationItem : [resourceType : {Absent}, resourceId : {Absent}],
               newEvaluationResult : [complianceType : {Absent, "COMPLIANT", "NON_COMPLIANT"},
                                      other : BOOLEAN],
               evaluationResult : [complianceType : {Absent, "COMPLIANT", "NON_COMPLIANT"},
                                   other : {FALSE}]],
     Records : {<<>>},
     bucket : {Absent},
     resourceId : {Absent}]

NoResult == [status |-> "none", bucket |-> None, actions |-> <<>>, error |-> ""]

\* ----------------------------------------------------- soc: lambda_handler
resource_type(e) == Get(e.detail.configurationItem.resourceType)
resource_id(e) == Get(e.detail.configurationItem.resourceId)
compliance_type(e) == Get(e.detail.newEvaluationResult.complianceType)

\* Strategy without the test of the compliance type
Strategy_AnyCompliance(e) ==
    CASE resource_type(e) = SecurityGroupType -> "sg_describe"
      [] resource_type(e) = BucketType -> "s3_encryption"
      [] resource_type(e) = InstanceType -> "ec2_create"
      [] OTHER -> "notify"

\* Strategy with an early return for an event that is not NON_COMPLIANT:
\* lambda_handler is over before send_notification
Strategy_CompliantReturns(e) ==
    IF compliance_type(e) = "NON_COMPLIANT"
    THEN CASE resource_type(e) = SecurityGroupType -> "sg_describe"
           [] resource_type(e) = BucketType -> "s3_encryption"
           [] resource_type(e) = InstanceType -> "ec2_create"
           [] OTHER -> "notify"
    ELSE "done"

\* Strategy with a final else that treats any other resource as a bucket
Strategy_ElseBucket(e) ==
    IF compliance_type(e) = "NON_COMPLIANT"
    THEN CASE resource_type(e) = SecurityGroupType -> "sg_describe"
           [] resource_type(e) = InstanceType -> "ec2_create"
           [] OTHER -> "s3_encryption"
    ELSE "notify"

\* The branch the if/elif chain of lambda_handler takes
Strategy(e) ==
    IF compliance_type(e) = "NON_COMPLIANT"
    THEN CASE resource_type(e) = SecurityGroupType -> "sg_describe"
           [] resource_type(e) = BucketType -> "s3_encryption"
           [] resource_type(e) = InstanceType -> "ec2_create"
           [] OTHER -> "notify"
    ELSE "notify"

Call(p, op, target, rule, ok) ==
    [p |-> p, op |-> op, target |-> target, rule |-> rule, ok |-> ok]

\* A call on a resource that does not exist raises
MayFail(target) == IF target \in RealIds THEN BOOLEAN ELSE {FALSE}

Init ==
    /\ handler \in {"soc", "hardening", "reporting"}
    /\ event \in CASE handler = "soc" -> SocEvents
                  [] handler = "hardening" -> HardeningEvents
                  [] handler = "reporting" -> ReportingEvents
    /\ pc = [p \in Procs |-> "idle"]
    /\ listing = [p \in Procs |-> <<>>]
    /\ idx = [p \in Procs |-> <<1, 1>>]
    /\ qsg = [p \in Procs |-> 0]
    /\ bucket = [p \in Procs |-> None]
    /\ result = [p \in Procs |-> NoResult]
    /\ \E rules \in (IF /\ handler = "soc"
                         /\ Strategy(event) = "sg_describe"
                         /\ resource_id(event) = "r1"
                      THEN RuleLists ELSE {<<>>}) :
          sgRules = [g \in RealIds |-> IF g = "r1" THEN rules ELSE <<>>]
    /\ encrypted = {}
    /\ blocked = {}
    /\ boundaries = {}
    /\ attached = [i \in RealIds |-> {}]
    /\ tagged = {}
    /\ calls = <<>>
    /\ published = <<>>
    /\ log = <<>>

\* Delivery p of the event starts once the deliveries before it returned
Start(p) ==
    /\ pc[p] = "idle"
    /\ \A q \in Procs : q < p => pc[q] = "done"
    /\ pc' = [pc EXCEPT ![p] = CASE handler = "soc" -> Strategy(event)
                                  [] handler = "hardening" -> "extract"
                                  [] handler = "reporting" -> "report"]
    /\ UNCHANGED <<handler, event, local, result, plane, calls, published, log>>

\* An exception caught by a strategy or by send_notification: logger.error
Logged(p, what) == log' = Append(log, [p |-> p, what |-> what])

\* ---------------------------------------------- soc: remediate_security_group
\* NextOpen with a break out of both loops after the first revocation: once
\* an open range lies before <<i, j>> the loops are over
RECURSIVE NextOpen_BreakAfterFirst(_, _, _)
NextOpen_BreakAfterFirst(rules, i, j) ==
    IF i > Len(rules) THEN <<0, 0>>
    ELSE IF \E a \in 1..i : \E b \in 1..Len(rules[a].ranges) :
               /\ a < i \/ b < j
               /\ rules[a].ranges[b] = OpenCidr
         THEN <<0, 0>>
    ELSE IF j > Len(rules[i].ranges) THEN NextOpen_BreakAfterFirst(rules, i + 1, 1)
    ELSE IF rules[i].ranges[j] = OpenCidr THEN <<i, j>>
    ELSE NextOpen_BreakAfterFirst(rules, i, j + 1)

\* The first position <<i, j>> at or after it of the nested loops at which
\* ip_range.get('CidrIp') == '0.0.0.0/0'; <<0, 0>> when the loops run out
RECURSIVE NextOpen(_, _, _)
NextOpen(rules, i, j) ==
    IF i > Len(rules) THEN <<0, 0>>
    ELSE IF j > Len(rules[i].ranges) THEN NextOpen(rules, i + 1, 1)
    ELSE IF rules[i].ranges[j] = OpenCidr THEN <<i, j>>
    ELSE NextOpen(rules, i, j + 1)

\* ec2.describe_security_groups(GroupIds=[sg_id])
SgDescribe(p) ==
    /\ pc[p] = "sg_describe"
    /\ LET sg_id == resource_id(event) IN
       \E ok \in MayFail(sg_id) :
          /\ calls' = Append(calls, Call(p, "describe_security_groups", sg_id, 0, ok))
          /\ IF ok
             THEN /\ listing' = [listing EXCEPT ![p] = sgRules[sg_id]]
                  /\ idx' = [idx EXCEPT ![p] = <<1, 1>>]
                  /\ pc' = [pc EXCEPT ![p] = "sg_revoke"]
                  /\ UNCHANGED log
             ELSE /\ Logged(p, "Failed to remediate security group")
                  /\ pc' = [pc EXCEPT ![p] = "notify"]
                  /\ UNCHANGED <<listing, idx>>
    /\ UNCHANGED <<handler, event, qsg, bucket, result, plane, published>>

\* The loops up to and including the next ec2.revoke_security_group_ingress
SgRevoke(p) ==
    /\ pc[p] = "sg_revoke"
    /\ LET sg_id == resource_id(event)
           at == NextOpen(listing[p], idx[p][1], idx[p][2])
       IN IF at = <<0, 0>>
          THEN /\ pc' = [pc EXCEPT ![p] = "notify"]
               /\ UNCHANGED <<idx, sgRules, calls, log>>
          ELSE LET rule == listing[p][at[1]] IN
               \E ok \in BOOLEAN :
                  /\ calls' = Append(calls, Call(p, "revoke_security_group_ingress",
                                                 sg_id, rule.port, ok))
                  /\ IF ok
                     THEN /\ sgRules' = [sgRules EXCEPT
                                 ![sg_id] = SelectSeq(@, LAMBDA r : r # rule)]
                          /\ idx' = [idx EXCEPT ![p] = <<at[1], at[2] + 1>>]
                          /\ UNCHANGED <<pc, log>>
                     ELSE /\ Logged(p, "Failed to remediate security group")
                          /\ pc' = [pc EXCEPT ![p] = "notify"]
                          /\ UNCHANGED <<idx, sgRules>>
    /\ UNCHANGED <<handler, event, listing, qsg, bucket, result, encrypted, blocked,
                   boundaries, attached, tagged, published>>

\* --------------------------------------------------- soc: remediate_s3_bucket
\* s3.put_bucket_encryption(Bucket=bucket_name, ...)
S3Encryption(p) ==
    /\ pc[p] = "s3_encryption"
    /\ LET bucket_name == resource_id(event) IN
       \E ok \in MayFail(bucket_name) :
          /\ calls' = Append(calls, Call(p, "put_bucket_encryption", bucket_name, 0, ok))
          /\ IF ok
             THEN /\ encrypted' = encrypted \cup {bucket_name}
                  /\ pc' = [pc EXCEPT ![p] = "s3_block"]
                  /\ UNCHANGED log
             ELSE /\ Logged(p, "Failed to remediate S3 bucket")
                  /\ pc' = [pc EXCEPT ![p] = "notify"]
                  /\ UNCHANGED encrypted
    /\ UNCHANGED <<handler, event, local, result, sgRules, blocked, boundaries,
                   attached, tagged, published>>

\* s3.put_public_access_block(Bucket=bucket_name, ...), all four flags True
S3Block(p) ==
    /\ pc[p] = "s3_block"
    /\ LET bucket_name == resource_id(event) IN
       \E ok \in MayFail(bucket_name) :
          /\ calls' = Append(calls, Call(p, "put_public_access_block", bucket_name, 0, ok))
          /\ IF ok
             THEN /\ blocked' = blocked \cup {bucket_name}
                  /\ UNCHANGED log
             ELSE /\ Logged(p, "Failed to remediate S3 bucket")
                  /\ UNCHANGED blocked
    /\ pc' = [pc EXCEPT ![p] = "notify"]
    /\ UNCHANGED <<handler, event, local, result, sgRules, encrypted, boundaries,
                   attached, tagged, published>>

\* ----------------------------------------------- soc: quarantine_ec2_instance
\* A group name that also carries the moment of the call
GroupName_PerCall(instance_id) ==
    "quarantine-" \o Str(instance_id) \o "-" \o ToString(Len(calls))

\* f'quarantine-{instance_id}'
GroupName(instance_id) == "quarantine-" \o Str(instance_id)

\* ec2.create_security_group(GroupName=..., Description=...): EC2 rejects a
\* name a group of the VPC already has (InvalidGroup.Duplicate)
Ec2Create(p) ==
    /\ pc[p] = "ec2_create"
    /\ LET instance_id == resource_id(event)
           name == GroupName(instance_id)
           taken == \E b \in boundaries : b.name = name
       IN \E ok \in (IF taken THEN {FALSE} ELSE BOOLEAN) :
             /\ calls' = Append(calls, Call(p, "create_security_group", instance_id, 0, ok))
             /\ IF ok
                THEN LET gid == Cardinality(boundaries) + 1 IN
                     /\ boundaries' = boundaries \cup {[gid |-> gid, name |-> name]}
                     /\ qsg' = [qsg EXCEPT ![p] = gid]
                     /\ pc' = [pc EXCEPT ![p] = "ec2_attach"]
                     /\ UNCHANGED log
                ELSE /\ Logged(p, "Failed to quarantine EC2 instance")
                     /\ pc' = [pc EXCEPT ![p] = "notify"]
                     /\ UNCHANGED <<boundaries, qsg>>
    /\ UNCHANGED <<handler, event, listing, idx, bucket, result, sgRules, encrypted,
                   blocked, attached, tagged, published>>

\* Ec2Attach with a try of its own around the call: a failed attachment is
\* logged and the function goes on to tag the instance
Ec2Attach_FailureContinues(p) ==
    /\ pc[p] = "ec2_attach"
    /\ LET instance_id == resource_id(event) IN
       \E ok \in MayFail(instance_id) :
          /\ calls' = Append(calls, Call(p, "modify_instance_attribute", instance_id, 0, ok))
          /\ IF ok
             THEN /\ attached' = [attached EXCEPT ![instance_id] = {qsg[p]}]
                  /\ UNCHANGED log
             ELSE /\ Logged(p, "Failed to quarantine EC2 instance")
                  /\ UNCHANGED attached
    /\ pc' = [pc EXCEPT ![p] = "ec2_tag"]
    /\ UNCHANGED <<handler, event, local, result, sgRules, encrypted, blocked,
                   boundaries, tagged, published>>

\* ec2.modify_instance_attribute(InstanceId=instance_id, Groups=[quarantine_sg_id])
Ec2Attach(p) ==
    /\ pc[p] = "ec2_attach"
    /\ LET instance_id == resource_id(event) IN
       \E ok \in MayFail(instance_id) :
          /\ calls' = Append(calls, Call(p, "modify_instance_attribute", instance_id, 0, ok))
          /\ IF ok
             THEN /\ attached' = [attached EXCEPT ![instance_id] = {qsg[p]}]
                  /\ pc' = [pc EXCEPT ![p] = "ec2_tag"]
                  /\ UNCHANGED log
             ELSE /\ Logged(p, "Failed to quarantine EC2 instance")
                  /\ pc' = [pc EXCEPT ![p] = "notify"]
                  /\ UNCHANGED attached
    /\ UNCHANGED <<handler, event, local, result, sgRules, encrypted, blocked,
                   boundaries, tagged, published>>

\* ec2.create_tags(Resources=[instance_id], Tags=[SecurityStatus, QuarantineDate])
Ec2Tag(p) ==
    /\ pc[p] = "ec2_tag"
    /\ LET instance_id == resource_id(event) IN
       \E ok \in MayFail(instance_id) :
          /\ calls' = Append(calls, Call(p, "create_tags", instance_id, 0, ok))
          /\ IF ok
             THEN /\ tagged' = tagged \cup {instance_id}
                  /\ UNCHANGED log
             ELSE /\ Logged(p, "Failed to quarantine EC2 instance")
                  /\ UNCHANGED tagged
    /\ pc' = [pc EXCEPT ![p] = "notify"]
    /\ UNCHANGED <<handler, event, local, result, sgRules, encrypted, blocked,
                   boundaries, attached, published>>

\* ------------------------------------- soc: send_notification and the return
SocResult == [status |-> "200", bucket |-> None, actions |-> <<>>, error |-> ""]

\* Notify with sns.publish outside a try of its own: the exception reaches
\* lambda_handler's except clause, which returns 500
Notify_PublishUnguarded(p) ==
    /\ pc[p] = "notify"
    /\ \E ok \in BOOLEAN :
          /\ published' = Append(published,
                 [p |-> p, ok |-> ok, resource_type |-> resource_type(event),
                  resource_id |-> resource_id(event),
                  compliance_status |-> compliance_type(event)])
          /\ IF ok
             THEN /\ result' = [result EXCEPT ![p] = SocResult]
                  /\ UNCHANGED log
             ELSE /\ result' = [result EXCEPT ![p] =
                                   [SocResult EXCEPT !.status = "500", !.error = "publish"]]
                  /\ Logged(p, "Error processing event")
    /\ pc' = [pc EXCEPT ![p] = "done"]
    /\ UNCHANGED <<handler, event, local, plane, calls>>

\* Notify with send_notification called from inside the remediation branch:
\* a delivery that ran no remediation returns without publishing
Notify_OnlyAfterRemediation(p) ==
    /\ pc[p] = "notify"
    /\ IF Strategy(event) = "notify"
       THEN UNCHANGED <<published, log>>
       ELSE \E ok \in BOOLEAN :
               /\ published' = Append(published,
                      [p |-> p, ok |-> ok, resource_type |-> resource_type(event),
                       resource_id |-> resource_id(event),
                       compliance_status |-> compliance_type(event)])
               /\ IF ok THEN UNCHANGED log ELSE Logged(p, "Failed to send notification")
    /\ result' = [result EXCEPT ![p] = SocResult]
    /\ pc' = [pc EXCEPT ![p] = "done"]
    /\ UNCHANGED <<handler, event, local, plane, calls>>

\* sns.publish(...) inside its own try, then lambda_handler returns 200
Notify(p) ==
    /\ pc[p] = "notify"
    /\ \E ok \in BOOLEAN :
          /\ published' = Append(published,
                 [p |-> p, ok |-> ok, resource_type |-> resource_type(event),
                  resource_id |-> resource_id(event),
                  compliance_status |-> compliance_type(event)])
          /\ IF ok THEN UNCHANGED log ELSE Logged(p, "Failed to send notification")
    /\ result' = [result EXCEPT ![p] = SocResult]
    /\ pc' = [pc EXCEPT ![p] = "done"]
    /\ UNCHANGED <<handler, event, local, plane, calls>>

\* ------------------------------------------------ hardening: lambda_handler
KeyError == "<KeyError>"

\* BucketOf without the manual test format
BucketOf_NoManualFormat(e) ==
    IF e.detail.resourceId # Absent THEN e.detail.resourceId
    ELSE IF Len(e.Records) > 0
         THEN (IF e.Records[1] = Absent THEN KeyError ELSE e.Records[1])
    ELSE None

\* Lines 13-23: the if/elif chain over the event's keys.  KeyError when
\* event['Records'][0]['s3']['bucket']['name'] has no such key
BucketOf(e) ==
    IF e.detail.resourceId # Absent THEN e.detail.resourceId
    ELSE IF Len(e.Records) > 0
         THEN (IF e.Records[1] = Absent THEN KeyError ELSE e.Records[1])
    ELSE IF e.bucket # Absent THEN e.bucket
    ELSE None

Failed(error) == [status |-> "failed", bucket |-> None, actions |-> <<>>, error |-> error]

Succeeded(name) ==
    [status |-> "success", bucket |-> name,
     actions |-> <<"enabled_public_access_block", "enabled_encryption">>, error |-> ""]

\* Lines 13-33: extract the bucket name or raise into the handler's except
Extract(p) ==
    /\ pc[p] = "extract"
    /\ LET found == BucketOf(event) IN
       IF found = KeyError
       THEN /\ result' = [result EXCEPT ![p] = Failed("KeyError")]
            /\ Logged(p, "Error: KeyError")
            /\ pc' = [pc EXCEPT ![p] = "done"]
            /\ UNCHANGED bucket
       ELSE /\ bucket' = [bucket EXCEPT ![p] = found]
            /\ IF ~Truthy(found)
               THEN /\ result' = [result EXCEPT
                          ![p] = Failed("Could not find bucket name in event")]
                    /\ Logged(p, "Error: Could not find bucket name in event")
                    /\ pc' = [pc EXCEPT ![p] = "done"]
               ELSE /\ pc' = [pc EXCEPT ![p] = "h_block"]
                    /\ UNCHANGED <<result, log>>
    /\ UNCHANGED <<handler, event, listing, idx, qsg, plane, calls, published>>

\* s3.put_public_access_block(Bucket=bucket, ...), all four flags True
HBlock(p) ==
    /\ pc[p] = "h_block"
    /\ \E ok \in MayFail(bucket[p]) :
          /\ calls' = Append(calls, Call(p, "put_public_access_block", bucket[p], 0, ok))
          /\ IF ok
             THEN /\ blocked' = blocked \cup {bucket[p]}
                  /\ pc' = [pc EXCEPT ![p] = "h_encryption"]
                  /\ UNCHANGED <<result, log>>
             ELSE /\ result' = [result EXCEPT ![p] = Failed("put_public_access_block")]
                  /\ Logged(p, "Error: put_public_access_block")
                  /\ pc' = [pc EXCEPT ![p] = "done"]
                  /\ UNCHANGED blocked
    /\ UNCHANGED <<handler, event, local, sgRules, encrypted, boundaries,
                   attached, tagged, published>>

\* s3.put_bucket_encryption(Bucket=bucket, ...), then the success return
HEncryption(p) ==
    /\ pc[p] = "h_encryption"
    /\ \E ok \in MayFail(bucket[p]) :
          /\ calls' = Append(calls, Call(p, "put_bucket_encryption", bucket[p], 0, ok))
          /\ IF ok
             THEN /\ encrypted' = encrypted \cup {bucket[p]}
                  /\ result' = [result EXCEPT ![p] = Succeeded(bucket[p])]
                  /\ UNCHANGED log
             ELSE /\ result' = [result EXCEPT ![p] = Failed("put_bucket_encryption")]
                  /\ Logged(p, "Error: put_bucket_encryption")
                  /\ UNCHANGED encrypted
    /\ pc' = [pc EXCEPT ![p] = "done"]
    /\ UNCHANGED <<handler, event, local, sgRules, blocked, boundaries,
                   attached, tagged, published>>

\* ------------------------------------------------ reporting: lambda_handler
\* bool(d) of a mapping: it has a key
NonEmpty(evaluation) == evaluation.complianceType # Absent \/ evaluation.other

\* Line 17: detail.get('newEvaluationResult', {}) or detail.get('evaluationResult', {})
evaluation_result(e) ==
    IF NonEmpty(e.detail.newEvaluationResult)
    THEN e.detail.newEvaluationResult
    ELSE e.detail.evaluationResult

\* Line 18: evaluation_result.get('complianceType', 'UNKNOWN_STATUS')
reported_compliance(e) ==
    IF evaluation_result(e).complianceType = Absent
    THEN "UNKNOWN_STATUS"
    ELSE evaluation_result(e).complianceType

\* Line 14: detail.get('resourceId', 'UNKNOWN_RESOURCE')
reported_resource(e) ==
    IF e.detail.resourceId = Absent THEN "UNKNOWN_RESOURCE" ELSE e.detail.resourceId

ReportResult == [status |-> "200", bucket |-> None, actions |-> <<>>, error |-> ""]

\* The exception leaves the handler
Raised(error) == [status |-> "raised", bucket |-> None, actions |-> <<>>, error |-> error]

\* Lines 13-49: build the alert and sns.publish it; a failure is logged and
\* raised again
Report(p) ==
    /\ pc[p] = "report"
    /\ \E ok \in BOOLEAN :
          /\ published' = Append(published,
                 [p |-> p, ok |-> ok, resource_type |-> None,
                  resource_id |-> reported_resource(event),
                  compliance_status |-> reported_compliance(event)])
          /\ IF ok
             THEN /\ result' = [result EXCEPT ![p] = ReportResult]
                  /\ UNCHANGED log
             ELSE /\ result' = [result EXCEPT ![p] = Raised("publish")]
                  /\ Logged(p, "Error processing event")
    /\ pc' = [pc EXCEPT ![p] = "done"]
    /\ UNCHANGED <<handler, event, local, plane, calls>>

Next ==
    \E p \in Procs :
       \/ Start(p)
       \/ SgDescribe(p)
       \/ SgRevoke(p)
       \/ S3Encryption(p)
       \/ S3Block(p)
       \/ Ec2Create(p)
       \/ Ec2Attach(p)
       \/ Ec2Tag(p)
       \/ Notify(p)
       \/ Extract(p)
       \/ HBlock(p)
       \/ HEncryption(p)
       \/ Report(p)

Spec == Init /\ [][Next]_vars

\* The steps of a delivery that has started
Run(p) ==
    \/ SgDescribe(p) \/ SgRevoke(p)
    \/ S3Encryption(p) \/ S3Block(p)
    \/ Ec2Create(p) \/ Ec2Attach(p) \/ Ec2Tag(p)
    \/ Notify(p)
    \/ Extract(p) \/ HBlock(p) \/ HEncryption(p)
    \/ Report(p)

\* The runtime runs a started handler until it returns or raises, and every
\* client call returns or raises: the delivery that has started keeps taking
\* steps (deliveries follow one another, so at most one has)
FairSpec == Spec /\ WF_vars(\E p \in Procs : Run(p))

\* A delivery that does not wait for the deliveries before it: the event
\* source delivers at least once, and the copies may run at the same time
StartAny(p) ==
    /\ pc[p] = "idle"
    /\ pc' = [pc EXCEPT ![p] = CASE handler = "soc" -> Strategy(event)
                                  [] handler = "hardening" -> "extract"
                                  [] handler = "reporting" -> "report"]
    /\ UNCHANGED <<handler, event, local, result, plane, calls, published, log>>

NextDup == \E p \in Procs : StartAny(p) \/ Run(p)

\* The deliveries of the event in any interleaving
DupSpec == Init /\ [][NextDup]_vars

\* ================================================================= claims
\* The control-plane calls delivery p issued, in order
CallsOf(p) == SelectSeq(calls, LAMBDA c : c.p = p)

\* The operations among them
OpsOf(p) == {CallsOf(p)[k].op : k \in 1..Len(CallsOf(p))}

\* The compliance state an event carries
ComplianceState(e) ==
    IF e.detail.newEvaluationResult.complianceType # Absent
    THEN e.detail.newEvaluationResult.complianceType
    ELSE IF e.detail.evaluationResult.complianceType # Absent
    THEN e.detail.evaluationResult.complianceType
    ELSE "UNKNOWN"

KnownTypes == {SecurityGroupType, BucketType, InstanceType}

\* C1 as stated: an event whose compliance state is COMPLIANT or UNKNOWN
\* causes no control-plane call, whatever the handler and the event's shape,
\* and the delivery ends without having run a remediation.
C1_OnlyNonCompliantDispatched ==
    ComplianceState(event) # "NON_COMPLIANT" =>
        /\ calls = <<>>
        /\ \A p \in Procs : pc[p] = "done" => result[p].status # "success"

\* C1, amended: an event delivered to the soc handler whose complianceType is
\* not NON_COMPLIANT runs no strategy, whatever its resource type: no
\* control-plane call is issued, nothing is changed, and the handler returns
\* 200 after its notification.
C1_SocOnlyNonCompliantDispatched ==
    (handler = "soc" /\ ComplianceState(event) # "NON_COMPLIANT") =>
        /\ calls = <<>>
        /\ encrypted = {} /\ blocked = {} /\ boundaries = {} /\ tagged = {}
        /\ \A p \in Procs : /\ pc[p] \in {"idle", "notify", "done"}
                            /\ pc[p] = "done" => result[p].status = "200"

C1_Witness ==
    /\ handler = "soc"
    /\ ComplianceState(event) = "COMPLIANT"
    /\ event.detail.configurationItem.resourceType = BucketType
    /\ event.detail.configurationItem.resourceId = "r1"
    /\ pc[1] = "done"
    /\ Len(published) = 1

\* C2: a NON_COMPLIANT event of the soc handler whose resourceType is none of
\* the three known types (or is missing) runs no strategy, causes no
\* control-plane call and returns 200, not an error.
C2_UnknownTypeSkipped ==
    (/\ handler = "soc"
     /\ ComplianceState(event) = "NON_COMPLIANT"
     /\ event.detail.configurationItem.resourceType \notin KnownTypes) =>
        /\ calls = <<>>
        /\ log \in Seq([p : Procs, what : {"Failed to send notification"}])
        /\ \A p \in Procs : /\ pc[p] \in {"idle", "notify", "done"}
                            /\ pc[p] = "done" => result[p].status = "200"

C2_Witness ==
    /\ handler = "soc"
    /\ ComplianceState(event) = "NON_COMPLIANT"
    /\ event.detail.configurationItem.resourceType = RoleType
    /\ pc[1] = "done"
    /\ result[1].status = "200"

BucketOps == {"put_bucket_encryption", "put_public_access_block"}

\* Delivery p ran the bucket remediation on an existing bucket and returned
BucketApplied(p) ==
    /\ pc[p] = "done"
    /\ \/ /\ handler = "soc"
          /\ ComplianceState(event) = "NON_COMPLIANT"
          /\ event.detail.configurationItem.resourceType = BucketType
          /\ event.detail.configurationItem.resourceId \in RealIds
       \/ /\ handler = "hardening"
          /\ bucket[p] \in RealIds

\* How many of delivery p's calls succeeded
OkCount(p) == Len(SelectSeq(CallsOf(p), LAMBDA c : c.ok))

\* C3: every run of the bucket remediation attempts both
\* put_bucket_encryption and put_public_access_block, whichever of them fails.
C3_BothBucketCallsAttempted ==
    \A p \in Procs : BucketApplied(p) => BucketOps \subseteq OpsOf(p)

\* C4: the outcome of the bucket remediation aggregates its two sub-actions:
\* success iff both succeeded, failure iff neither did, and one recorded
\* applied action per sub-action that succeeded.
C4_BucketOutcomeAggregates ==
    \A p \in Procs :
       (handler = "hardening" /\ BucketApplied(p)) =>
           /\ result[p].status = "success" <=> OkCount(p) = 2
           /\ result[p].status = "failed" <=> OkCount(p) = 0
           /\ Len(result[p].actions) = OkCount(p)

\* A rule one of whose IpRanges is 0.0.0.0/0
OpenRule(r) == \E j \in 1..Len(r.ranges) : r.ranges[j] = OpenCidr

ElemsOf(seq) == {seq[k] : k \in 1..Len(seq)}

\* The ports of the rules delivery p asked to revoke, in order
RevokedBy(p) ==
    LET revokes == SelectSeq(CallsOf(p),
                             LAMBDA c : c.op = "revoke_security_group_ingress")
    IN [k \in 1..Len(revokes) |-> revokes[k].rule]

\* Delivery p ran the security-group remediation, none of its calls failed,
\* and it returned
SgApplied(p) ==
    /\ pc[p] = "done"
    /\ handler = "soc"
    /\ ComplianceState(event) = "NON_COMPLIANT"
    /\ event.detail.configurationItem.resourceType = SecurityGroupType
    /\ CallsOf(p) # <<>>
    /\ \A k \in 1..Len(CallsOf(p)) : CallsOf(p)[k].ok

\* C5: when no call fails, the security-group remediation revokes every rule
\* of the listing that has the CIDR 0.0.0.0/0, all of them and in listing
\* order, leaves every other rule in the group, revokes nothing when there is
\* no such rule, and the handler returns 200.
C5_RevokesEveryOpenRule ==
    \A p \in Procs :
       SgApplied(p) =>
           LET sg_id == event.detail.configurationItem.resourceId
               open == {r \in ElemsOf(listing[p]) : OpenRule(r)}
           IN /\ {RevokedBy(p)[k] : k \in 1..Len(RevokedBy(p))} = {r.port : r \in open}
              /\ \A k \in 1..(Len(RevokedBy(p)) - 1) : RevokedBy(p)[k] <= RevokedBy(p)[k + 1]
              /\ ElemsOf(sgRules[sg_id]) \cap open = {}
              /\ ElemsOf(listing[p]) \ open \subseteq ElemsOf(sgRules[sg_id])
              /\ result[p].status = "200"

C5_Witness ==
    /\ SgApplied(1)
    /\ listing[1] = <<Rule(1, <<OpenCidr>>), Rule(2, <<PrivateCidr>>), Rule(3, <<OpenCidr>>)>>
    /\ RevokedBy(1) = <<1, 3>>
    /\ sgRules["r1"] = <<Rule(2, <<PrivateCidr>>)>>

\* The event quarantines an existing instance
QuarantineEvent ==
    /\ handler = "soc"
    /\ ComplianceState(event) = "NON_COMPLIANT"
    /\ event.detail.configurationItem.resourceType = InstanceType
    /\ event.detail.configurationItem.resourceId \in RealIds

\* Delivery p created a boundary
Created(p) ==
    \E k \in 1..Len(calls) :
       calls[k].p = p /\ calls[k].op = "create_security_group" /\ calls[k].ok

\* C6: however often the quarantine runs on one instance, the control plane
\* holds at most one boundary, the one named quarantine-<instance id>, and
\* exactly one once a creation succeeded.
C6_OneBoundaryPerInstance ==
    QuarantineEvent =>
        /\ \A b \in boundaries :
              b.name = "quarantine-" \o event.detail.configurationItem.resourceId
        /\ Cardinality(boundaries) = IF \E p \in Procs : Created(p) THEN 1 ELSE 0

C6_Witness ==
    /\ QuarantineEvent
    /\ pc[1] = "done" /\ pc[2] = "done"
    /\ "create_security_group" \in OpsOf(1)
    /\ "create_security_group" \in OpsOf(2)
    /\ Cardinality(boundaries) = 1

\* C7: a delivery to an instance an earlier delivery quarantined (boundary
\* created, attached, instance tagged) reuses the boundary: it attempts no
\* creation that fails as a duplicate and goes on to attach the boundary.
C7_SecondRunReusesBoundary ==
    \A p \in Procs :
       (/\ QuarantineEvent
        /\ pc[p] = "done"
        /\ \E q \in Procs : q < p /\ Created(q)
        /\ event.detail.configurationItem.resourceId \in tagged) =>
           /\ \A k \in 1..Len(CallsOf(p)) :
                 CallsOf(p)[k].op = "create_security_group" => CallsOf(p)[k].ok
           /\ "modify_instance_attribute" \in OpsOf(p)

\* The five places of an event that can name the resource, in the order
\* detail.resourceId, detail.configurationItem.resourceId,
\* Records[0].s3.bucket.name, bucket, resourceId
IdFields(e) ==
    <<e.detail.resourceId, e.detail.configurationItem.resourceId,
      IF Len(e.Records) > 0 THEN e.Records[1] ELSE Absent, e.bucket, e.resourceId>>

\* The event names x at place k and holds no other identifier field
CarriesOnly(e, k, x) ==
    /\ \A i \in 1..5 : IdFields(e)[i] = IF i = k THEN x ELSE Absent
    /\ k # 3 => e.Records = <<>>

\* Delivery p of the hardening handler is past its extraction of the name
Extracted(p) == handler = "hardening" /\ pc[p] \notin {"idle", "extract"}

\* C8 as stated: whichever of the five places carries the identifier, alone,
\* the handler extracts that identifier.
C8_EveryShapeSameId ==
    \A p \in Procs : \A k \in 1..5 : \A x \in RealIds :
       (Extracted(p) /\ CarriesOnly(event, k, x)) => bucket[p] = x

\* The places the hardening handler reads: detail.resourceId,
\* Records[0].s3.bucket.name and bucket
ReadPlaces == {1, 3, 4}

\* C8, amended: for the three shapes the hardening handler reads
\* (detail.resourceId, Records[0].s3.bucket.name, top-level bucket), each
\* carrying the same identifier and nothing else, the handler extracts that
\* identifier and goes on to remediate it.
C8_ReadShapesSameId ==
    \A p \in Procs : \A k \in ReadPlaces : \A x \in RealIds :
       (Extracted(p) /\ CarriesOnly(event, k, x)) =>
           /\ bucket[p] = x
           /\ \A c \in ElemsOf(CallsOf(p)) : c.target = x
           /\ result[p].error # "Could not find bucket name in event"

C8_Witness ==
    /\ Extracted(1)
    /\ CarriesOnly(event, 4, "r1")
    /\ bucket[1] = "r1"
    /\ pc[1] = "h_encryption"

\* The first non-empty identifier among ids, None when there is none
RECURSIVE FirstNonEmpty(_)
FirstNonEmpty(ids) ==
    IF ids = <<>> THEN None
    ELSE IF Truthy(Get(Head(ids))) THEN Head(ids)
    ELSE FirstNonEmpty(Tail(ids))

\* The three shapes the hardening handler reads, in its order
ReadIds(e) == <<IdFields(e)[1], IdFields(e)[3], IdFields(e)[4]>>

\* An earlier shape is there but empty ("" or null), a later one names a
\* resource
EmptyBeforeId(e) ==
    /\ Len(e.Records) > 0 => e.Records[1] # Absent
    /\ \E k \in 1..2 : \E l \in (k + 1)..3 :
          /\ ReadIds(e)[k] \in {None, Empty}
          /\ Truthy(Get(ReadIds(e)[l]))

\* C9: when an earlier shape is present but empty and a later shape carries
\* an identifier, the handler extracts the first non-empty identifier in the
\* order of the shapes.
C9_FirstNonEmptyShapeWins ==
    \A p \in Procs :
       (Extracted(p) /\ EmptyBeforeId(event)) =>
           bucket[p] = FirstNonEmpty(ReadIds(event))

\* No place of the event names a resource
NoIdentifier(e) == \A i \in 1..5 : ~Truthy(Get(IdFields(e)[i]))

\* C10: an event that names no resource never reaches a remediation: no
\* control-plane call is issued with its empty or absent identifier, nothing
\* is created under a stand-in for it, and no delivery of it reports success.
C10_NoIdentifierNoCall ==
    NoIdentifier(event) =>
        /\ calls = <<>>
        /\ boundaries = {}
        /\ \A p \in Procs : pc[p] = "done" => result[p].status # "success"

\* ------------------------------------------------------------------- C11
\* The compliance state the reporting handler puts in its alert
ReportedStates == {published[k].compliance_status : k \in 1..Len(published)}

\* C11: the compliance state of an event is newEvaluationResult.complianceType
\* when present, else evaluationResult.complianceType when present, else
\* unknown; so whenever one of the two carries a compliance type, the alert of
\* the reporting handler carries that one, also when newEvaluationResult is
\* non-empty without a complianceType.
C11_StateFallsBackToEvaluationResult ==
    (handler = "reporting" /\ ComplianceState(event) # "UNKNOWN")
        => \A s \in ReportedStates : s = ComplianceState(event)

\* ------------------------------------------------------------------- C12
\* A remediation call of delivery p failed
SubActionFailed(p) == \E k \in 1..Len(CallsOf(p)) : ~CallsOf(p)[k].ok

\* C12: when a remediation sub-action of a delivery failed, the value the
\* top-level handler returns reflects the failure: it is never the success
\* value.
C12_FailureReachesReturnedStatus ==
    \A p \in Procs :
       (/\ handler = "soc"
        /\ pc[p] = "done"
        /\ event.detail.configurationItem.resourceId \in RealIds
        /\ SubActionFailed(p))
          => result[p].status # "200"

\* ------------------------------------------------------------------- C13
\* The alert of delivery p was not accepted
PublishFailed(p) ==
    \E k \in 1..Len(published) : published[k].p = p /\ ~published[k].ok

\* C13 as stated: in every handler that alerts, a failed publish is not
\* propagated to the caller.
C13_PublishFailureNeverPropagates ==
    \A p \in Procs : PublishFailed(p) => result[p].status # "raised"

\* C13, SOC handler: a delivery returns the same value whether its publish
\* succeeded or failed, and the publish step makes no control-plane call and
\* changes no resource.
C13_SocPublishFailureLeavesOutcome ==
    /\ [](handler = "soc" =>
             \A p \in Procs : pc[p] = "done" => result[p] = SocResult)
    /\ [][(handler = "soc" /\ published' # published)
             => (calls' = calls /\ plane' = plane)]_vars

\* A bucket remediation took effect and its alert failed
C13_Witness ==
    /\ handler = "soc"
    /\ \E p \in Procs :
          /\ pc[p] = "done"
          /\ PublishFailed(p)
          /\ BucketOps \subseteq OpsOf(p)
          /\ "r1" \in encrypted \cap blocked
          /\ result[p] = SocResult

\* ------------------------------------------------------------------- C14
\* Delivery p ran the security-group pass on a group it could list, and
\* returned
SgPassEnded(p) ==
    /\ pc[p] = "done"
    /\ handler = "soc"
    /\ \E k \in 1..Len(CallsOf(p)) :
          CallsOf(p)[k].op = "describe_security_groups" /\ CallsOf(p)[k].ok

\* C14: a failed revoke for one unrestricted rule does not stop the pass:
\* every rule of the listing with a 0.0.0.0/0 range has had its revocation
\* attempted when the pass ends.
C14_FailedRevokeDoesNotStopPass ==
    \A p \in Procs :
       SgPassEnded(p) =>
           {r.port : r \in {r \in ElemsOf(listing[p]) : OpenRule(r)}}
               \subseteq ElemsOf(RevokedBy(p))

\* ------------------------------------------------------------------- C15
\* The processing state of delivery p, read off the handler's position:
\* parsing and classification happen in the step that leaves Received
Phase(p) ==
    CASE pc[p] = "idle" -> "Received"
      [] pc[p] = "done" -> "Completed"
      [] pc[p] = "notify" /\ CallsOf(p) = <<>> -> "Skipped"
      [] OTHER -> "Dispatched"

\* The remediation function an operation belongs to
StrategyOfOp(op) ==
    CASE op \in {"describe_security_groups", "revoke_security_group_ingress"} -> "sg"
      [] op \in BucketOps -> "s3"
      [] OTHER -> "ec2"

\* The moves the lifecycle allows
PhaseMoves ==
    {<<"Received", "Dispatched">>, <<"Received", "Skipped">>,
     <<"Dispatched", "Completed">>, <<"Skipped", "Completed">>}

\* C15: every delivery of the SOC handler goes Received, then exactly one of
\* Dispatched and Skipped, then Completed, without skipping or revisiting a
\* state; it runs calls of at most one remediation function; and once started
\* it reaches Completed with a returned value, whatever calls fail.
C15_LifecycleIsLinearAndCompletes ==
    /\ [][handler = "soc" =>
            \A p \in Procs :
               Phase(p)' # Phase(p) => <<Phase(p), Phase(p)'>> \in PhaseMoves]_vars
    /\ [](handler = "soc" =>
            \A p \in Procs :
               /\ Cardinality({StrategyOfOp(op) : op \in OpsOf(p)}) <= 1
               /\ pc[p] = "done" => result[p].status # "none")
    /\ (handler = "soc" /\ \E p \in Procs : pc[p] \notin {"idle", "done"})
          ~> (\A p \in Procs : pc[p] \in {"idle", "done"})

\* A delivery completed although every call of its quarantine after the
\* creation failed, and so did its publish
C15_Witness ==
    /\ handler = "soc"
    /\ pc[1] = "done"
    /\ OpsOf(1) = {"create_security_group", "modify_instance_attribute"}
    /\ PublishFailed(1)
    /\ result[1] = SocResult

\* ------------------------------------------------------------------- C16
\* No call failed for a reason other than the state of the control plane:
\* a creation fails only when the name is taken, a revocation only when the
\* rule has been revoked already
NoInjectedFault ==
    \A k \in 1..Len(calls) :
       calls[k].ok \/
          \E j \in 1..(k - 1) :
             /\ calls[j].ok
             /\ calls[j].op = calls[k].op
             /\ calls[j].target = calls[k].target
             /\ calls[j].rule = calls[k].rule
             /\ calls[k].op \in {"create_security_group", "revoke_security_group_ingress"}

\* The resource a remediation of the event works on, None when there is none
Remediated ==
    CASE handler = "soc" /\ Strategy(event) # "notify" -> resource_id(event)
      [] handler = "hardening" -> BucketOf(event)
      [] OTHER -> None

\* C16: when every delivery of an event that remediates an existing resource
\* has returned and no fault was injected, whatever the interleaving, the
\* resource is in the state one delivery leaves it in and every delivery
\* reports success: the bucket is encrypted with public access blocked, the
\* security group has no 0.0.0.0/0 rule, the instance is attached to exactly
\* one boundary, the only one created, and tagged.
C16_DuplicateDeliveryConverges ==
    (/\ \A p \in Procs : pc[p] = "done"
     /\ Remediated \in RealIds
     /\ NoInjectedFault)
       => /\ \A p \in Procs : result[p].status \in {"200", "success"}
          /\ handler = "hardening" => Remediated \in encrypted \cap blocked
          /\ handler = "soc" =>
               CASE Strategy(event) = "s3_encryption" ->
                       Remediated \in encrypted \cap blocked
                 [] Strategy(event) = "sg_describe" ->
                       \A r \in ElemsOf(sgRules[Remediated]) : ~OpenRule(r)
                 [] Strategy(event) = "ec2_create" ->
                       /\ Cardinality(boundaries) = 1
                       /\ attached[Remediated] = {b.gid : b \in boundaries}
                       /\ Remediated \in tagged

\* ------------------------------------------------------------------- C17
\* The changes delivery p made: its calls that succeeded, the listing of a
\* group aside
ChangesOf(p) ==
    SelectSeq(CallsOf(p), LAMBDA c : c.ok /\ c.op # "describe_security_groups")

\* C17: when a delivery of the hardening handler or of the quarantine has
\* returned, the value it returned lists exactly the changes it made, one
\* applied action per control-plane call that succeeded, also when it reports
\* a failure.
C17_ReturnedActionsAreTheChanges ==
    \A p \in Procs :
       (/\ pc[p] = "done"
        /\ handler = "hardening" \/ QuarantineEvent)
          => Len(result[p].actions) = Len(ChangesOf(p))

\* ------------------------------------------------------------------- C18
QuarantineSteps ==
    <<"create_security_group", "modify_instance_attribute", "create_tags">>

\* The boundaries created for an instance
BoundariesOf(instance_id) ==
    {b.gid : b \in {b \in boundaries : b.name = GroupName(instance_id)}}

\* C18: a delivery issues the quarantine calls in the order create, attach,
\* tag, each one only after the one before it succeeded; so an instance that
\* carries the SecurityStatus=Quarantined tag is attached to its quarantine
\* boundary, and an instance is attached only to a boundary that was created.
C18_QuarantineStepsInOrder ==
    QuarantineEvent =>
        /\ \A p \in Procs :
              /\ Len(CallsOf(p)) <= 3
              /\ \A k \in 1..Len(CallsOf(p)) :
                    /\ CallsOf(p)[k].op = QuarantineSteps[k]
                    /\ k < Len(CallsOf(p)) => CallsOf(p)[k].ok
        /\ \A i \in RealIds :
              /\ attached[i] \subseteq BoundariesOf(i)
              /\ i \in tagged => attached[i] # {}

\* A delivery went through the three steps
C18_Witness ==
    /\ QuarantineEvent
    /\ pc[1] = "done"
    /\ Len(CallsOf(1)) = 3
    /\ "r1" \in tagged
    /\ attached["r1"] = BoundariesOf("r1")
    /\ Cardinality(attached["r1"]) = 1

\* ------------------------------------------------------------------- C19
\* C19: within one pass over a security group each ingress rule is the
\* subject of at most one revoke call, also when several of its IpRanges are
\* 0.0.0.0/0.
C19_OneRevokePerRule ==
    \A p \in Procs :
       \A j, k \in 1..Len(RevokedBy(p)) :
          RevokedBy(p)[j] = RevokedBy(p)[k] => j = k

\* ------------------------------------------------------------------- C20
\* The number of publish calls delivery p made
NotificationsOf(p) == Len(SelectSeq(published, LAMBDA n : n.p = p))

\* C20: the SOC handler publishes exactly one notification per delivery,
\* whatever the compliance state, the resource type and the fate of the
\* remediation calls: none before the delivery's last step, one from then on,
\* and the delivery makes no remediation call with or after the publish.
C20_OneNotificationAfterRemediation ==
    /\ [](handler = "soc" =>
             \A p \in Procs :
                NotificationsOf(p) = IF pc[p] = "done" THEN 1 ELSE 0)
    /\ [][handler = "soc" =>
             \A p \in Procs :
                (NotificationsOf(p)' # NotificationsOf(p) \/ pc[p] = "done")
                   => (CallsOf(p)' = CallsOf(p) /\ pc'[p] = "done")]_vars

\* A skipped delivery and one whose remediation failed, one notification each
C20_Witness ==
    /\ handler = "soc"
    /\ \A p \in Procs : pc[p] = "done" /\ NotificationsOf(p) = 1
    /\ \/ /\ compliance_type(event) = "COMPLIANT"
          /\ calls = <<>>
       \/ /\ compliance_type(event) = "NON_COMPLIANT"
          /\ SubActionFailed(1)

====
